---- MODULE Spec2Model ----
(***************************************************************************)
(* Reservation and pricing engine of the bus booking API: seat bookings    *)
(* (src/controllers/bookingController.js) and bus hirings                  *)
(* (src/controllers/hiringController.js, src/models/Hiring.js) sharing the *)
(* buses of src/models/Bus.js.                                             *)
(*                                                                         *)
(* Conventions of the model                                                *)
(*  - Instants are integers counted in hours; money is an integer counted  *)
(*    in cents, so Math.round(x * 100) / 100 is a rounding to an integer.  *)
(*  - The record store keeps a document as the handlers leave it: every    *)
(*    field a handler assigns is kept, a field nobody assigned holds its   *)
(*    schema default (Hiring.deposit = 0, Booking.paymentStatus =          *)
(*    'Pending'), and the store neither strips nor rejects a document      *)
(*    (spec.md section 1 treats persistence as an ordinary record store).  *)
(*  - A request reaches a handler through the route's validation chain     *)
(*    (hiringValidation, bookingValidation); the handler returns 400 when  *)
(*    validationResult(req) holds an error.                                *)
(*  - A handler's response is the value of its ...Response / ...Check      *)
(*    operator in the state the request arrives in; a rejected request     *)
(*    leaves every document as it was.                                     *)
(*  - Every handler is one atomic action in Spec.  SpecConc splits the two *)
(*    create handlers at the await between the conflict query and save().  *)
(***************************************************************************)
EXTENDS Integers, Sequences, FiniteSets, TLC

VARIABLES buses, hirings, bookings, now, inflight

vars == <<buses, hirings, bookings, now, inflight>>

(***************************************************************************)
(* Bounds of the model.                                                    *)
(***************************************************************************)
MaxReservations == 2
MaxHirings == 2
MaxBookings == 1
MaxDate == 3
MaxNow == 2
MaxPayments == 2

(***************************************************************************)
(* Program constants.                                                      *)
(***************************************************************************)
HoursPerDay == 24
DefaultDailyRate == 500
DefaultRatePerKm == 5
DriverPerDay == 150
FoodPerPersonDay == 50
GuidePerDay == 200
WifiFlat == 100
RouteBaseFare == 100

\* An absent (undefined) date field.
NoDate == 0 - 1
\* An absent (undefined) request field.
Absent == "absent"

\* Instants requests may name: multiples of half a day.
DateStep == HoursPerDay \div 2
Dates == {d * DateStep : d \in 0..MaxDate}

BusIds == {1, 2}
\* A bus identifier no Bus document has.
UnknownBus == Cardinality(BusIds) + 1
BusStatuses == {"Active", "Inactive", "Maintenance", "Out of Service"}

HiringLive == {"Pending", "Approved", "Confirmed", "In Progress"}
BookingLive == {"Pending", "Confirmed"}
HiringTerminal == {"Completed", "Rejected", "Cancelled", "Refunded"}
BookingTerminal == {"Completed", "Cancelled", "No-Show", "Refunded"}

Actors == {"admin", "user"}

(***************************************************************************)
(* Arithmetic helpers.                                                     *)
(***************************************************************************)
\* Math.ceil(n / d) for d > 0.
CeilDiv(n, d) == -((-n) \div d)

\* Math.round(n / d) for d > 0: halves round toward plus infinity.
RoundDiv(n, d) == (2 * n + d) \div (2 * d)

Max(a, b) == IF a >= b THEN a ELSE b

RECURSIVE SumSeq(_)
SumSeq(s) == IF s = <<>> THEN 0 ELSE Head(s) + SumSeq(Tail(s))

Response(op, id, code, msg) == [op |-> op, id |-> id, code |-> code, msg |-> msg]

(***************************************************************************)
(* Hirings: src/controllers/hiringController.js and src/models/Hiring.js.  *)
(***************************************************************************)
\* hiringValidation: startDate and endDate are required, endDate > startDate.
HiringValidation(req) == req.endDate > req.startDate

\* The additional-services switch of createHiring and updateHiring.
ServiceCost(service, durationDays, numberOfPassengers) ==
  CASE service = "driver" -> durationDays * DriverPerDay
    [] service = "food" -> numberOfPassengers * durationDays * FoodPerPersonDay
    [] service = "guide" -> durationDays * GuidePerDay
    [] service = "wifi" -> WifiFlat
    [] OTHER -> 0

RECURSIVE ServicesCost(_, _, _)
ServicesCost(services, durationDays, numberOfPassengers) ==
  IF services = <<>> THEN 0
  ELSE ServiceCost(Head(services), durationDays, numberOfPassengers)
       + ServicesCost(Tail(services), durationDays, numberOfPassengers)

DurationDays(startDate, endDate) == CeilDiv(endDate - startDate, HoursPerDay)

\* The total fare of createHiring and updateHiring, in cents.  No Bus document
\* carries hiringRates, so the default rates apply.
HiringFare(startDate, endDate, estimatedDistance, numberOfPassengers, services) ==
  LET durationDays == DurationDays(startDate, endDate)
      distanceBasedPrice == IF estimatedDistance # 0
                            THEN estimatedDistance * DefaultRatePerKm ELSE 0
      baseTimeFare == durationDays * DefaultDailyRate
      totalFare == Max(baseTimeFare, distanceBasedPrice)
                   + ServicesCost(services, durationDays, numberOfPassengers)
  IN RoundDiv(totalFare * 100, 1)

\* The conflict query of createHiring and of updateHiring: the hirings on `bus`,
\* other than `self`, in a blocking status whose window meets [startDate, endDate].
ExistingHirings(bus, startDate, endDate, self) ==
  {i \in DOMAIN hirings :
     /\ i # self
     /\ hirings[i].bus = bus
     /\ \/ (hirings[i].startDate >= startDate /\ hirings[i].startDate <= endDate)
        \/ (hirings[i].endDate >= startDate /\ hirings[i].endDate <= endDate)
        \/ (hirings[i].startDate <= startDate /\ hirings[i].endDate >= endDate)
     /\ hirings[i].status \in {"Pending", "Approved", "Confirmed"}}

\* The document createHiring builds; totalCost is never assigned (undefined, the
\* empty sequence), deposit and cancellationPolicy hold their schema defaults.
NewHiring(req) ==
  [bus |-> req.bus, startDate |-> req.startDate, endDate |-> req.endDate,
   estimatedDistance |-> req.estimatedDistance,
   numberOfPassengers |-> req.numberOfPassengers,
   additionalServices |-> req.additionalServices,
   totalFare |-> HiringFare(req.startDate, req.endDate, req.estimatedDistance,
                            req.numberOfPassengers, req.additionalServices),
   totalCost |-> <<>>, deposit |-> 0, cancellationPolicy |-> "Standard",
   status |-> "Pending", paymentStatus |-> "Unpaid", payments |-> <<>>]

\* The response createHiring gives before it saves: an error, or 201.
CreateHiringCheck(req) ==
  IF ~HiringValidation(req) THEN Response("createHiring", 0, 400, "validation")
  ELSE IF req.bus \notin DOMAIN buses
    THEN Response("createHiring", 0, 400, "Bus not found")
  ELSE IF ExistingHirings(req.bus, req.startDate, req.endDate, 0) # {}
    THEN Response("createHiring", 0, 400, "Bus is not available")
  ELSE Response("createHiring", Len(hirings) + 1, 201, "created")

CreateHiring(req) ==
  /\ hirings' = IF CreateHiringCheck(req).code = 201 THEN Append(hirings, NewHiring(req)) ELSE hirings
  /\ UNCHANGED <<buses, bookings, now, inflight>>

\* sum of the ledger entries with status Completed.
TotalPaid(payments) ==
  SumSeq([k \in DOMAIN payments |->
            IF payments[k].status = "Completed" THEN payments[k].amount ELSE 0])

\* payments.reduce((sum, payment) => sum + payment.amount, 0): every entry counts.
LedgerSum(payments) == SumSeq([k \in DOMAIN payments |-> payments[k].amount])

Entry(amount) == [amount |-> amount, status |-> "Completed"]

\* The paymentStatus updateHiring derives after a recalculation.
RecalculatedPaymentStatus(payments, totalFare) ==
  IF LedgerSum(payments) >= totalFare THEN "Paid"
  ELSE IF LedgerSum(payments) > 0 THEN "Partially Paid"
  ELSE "Unpaid"

\* The fields updateHiring assigns for an admin before the bus is looked at.
AdminUpdatedHiring(h, req) ==
  [h EXCEPT
     !.numberOfPassengers = IF req.numberOfPassengers # 0
                            THEN req.numberOfPassengers ELSE @,
     !.additionalServices = IF req.setServices THEN req.additionalServices ELSE @,
     !.startDate = req.startDate,
     !.endDate = req.endDate]

\* The recalculation of updateHiring: total fare, then paymentStatus.
RecalculatedHiring(h) ==
  LET fare == HiringFare(h.startDate, h.endDate, h.estimatedDistance,
                         h.numberOfPassengers, h.additionalServices)
  IN [h EXCEPT !.totalFare = fare,
               !.paymentStatus = RecalculatedPaymentStatus(h.payments, fare)]

UpdateHiringResponse(id, req, actor) ==
  IF ~HiringValidation(req) THEN Response("updateHiring", id, 400, "validation")
  ELSE IF id \notin DOMAIN hirings
    THEN Response("updateHiring", id, 404, "Hiring request not found")
  ELSE IF hirings[id].status \in {"Completed", "Cancelled", "Rejected"}
    THEN Response("updateHiring", id, 400, "Cannot update")
  ELSE IF actor # "admin" /\ hirings[id].status # "Pending"
    THEN Response("updateHiring", id, 403, "only pending")
  ELSE IF actor = "admin" /\ req.bus # 0 /\ req.bus # hirings[id].bus
          /\ req.bus \notin DOMAIN buses
    THEN Response("updateHiring", id, 400, "Bus not found")
  ELSE IF actor = "admin" /\ req.bus # 0 /\ req.bus # hirings[id].bus
          /\ ExistingHirings(req.bus, req.startDate, req.endDate, id) # {}
    THEN Response("updateHiring", id, 400, "Selected bus is not available")
  ELSE Response("updateHiring", id, 200, "updated")

UpdatedHiring(h, req, actor) ==
  IF actor # "admin"
  THEN [h EXCEPT !.numberOfPassengers = IF req.numberOfPassengers # 0
                                        THEN req.numberOfPassengers ELSE @]
  ELSE LET a == AdminUpdatedHiring(h, req)
           b == IF req.bus # 0 /\ req.bus # h.bus THEN [a EXCEPT !.bus = req.bus] ELSE a
       IN RecalculatedHiring(b)

UpdateHiring(id, req, actor) ==
  /\ hirings' = IF UpdateHiringResponse(id, req, actor).code = 200
                THEN [hirings EXCEPT ![id] = UpdatedHiring(hirings[id], req, actor)]
                ELSE hirings
  /\ UNCHANGED <<buses, bookings, now, inflight>>

\* The refund percentage of Hiring.handleCancellation, in percent.
HiringRefundPercentage(policy, hoursToDeparture) ==
  CASE policy = "Standard" ->
         IF hoursToDeparture > 14 * HoursPerDay THEN 90
         ELSE IF hoursToDeparture > 7 * HoursPerDay THEN 75
         ELSE IF hoursToDeparture > 3 * HoursPerDay THEN 50
         ELSE IF hoursToDeparture > 1 * HoursPerDay THEN 25
         ELSE 0
    [] policy = "Flexible" ->
         IF hoursToDeparture > 7 * HoursPerDay THEN 100
         ELSE IF hoursToDeparture > 3 * HoursPerDay THEN 80
         ELSE IF hoursToDeparture > 1 * HoursPerDay THEN 50
         ELSE 0
    [] policy = "Strict" ->
         IF hoursToDeparture > 30 * HoursPerDay THEN 75
         ELSE IF hoursToDeparture > 14 * HoursPerDay THEN 50
         ELSE IF hoursToDeparture > 7 * HoursPerDay THEN 25
         ELSE 0
    [] OTHER -> 0

\* Hiring.handleCancellation: the ledger and paymentStatus it leaves.
HandleCancellation(h) ==
  LET refundPercentage == HiringRefundPercentage(h.cancellationPolicy, h.startDate - now)
      totalPaid == TotalPaid(h.payments)
      refundAmount == RoundDiv(totalPaid * refundPercentage, 100)
  IN IF refundAmount > 0
     THEN [h EXCEPT !.payments = Append(@, Entry(-refundAmount)),
                    !.paymentStatus = IF refundAmount >= totalPaid
                                      THEN "Refunded" ELSE "Partially Refunded"]
     ELSE h

HiringStatusValues ==
  {"Pending", "Approved", "Confirmed", "In Progress", "Completed", "Cancelled", "Rejected"}

\* updateHiringStatus as it would answer if only cancelled hirings were final.
UpdateHiringStatusResponseCancelledOnly(id, status) ==
  IF status \notin HiringStatusValues
    THEN Response("updateHiringStatus", id, 400, "Status must be one of")
  ELSE IF id \notin DOMAIN hirings
    THEN Response("updateHiringStatus", id, 404, "Hiring request not found")
  ELSE IF hirings[id].status \in {"Cancelled"}
    THEN Response("updateHiringStatus", id, 400, "Cannot change status")
  ELSE Response("updateHiringStatus", id, 200, "updated")

UpdateHiringStatusResponse(id, status) ==
  IF status \notin HiringStatusValues
    THEN Response("updateHiringStatus", id, 400, "Status must be one of")
  ELSE IF id \notin DOMAIN hirings
    THEN Response("updateHiringStatus", id, 404, "Hiring request not found")
  ELSE IF hirings[id].status \in {"Cancelled", "Completed", "Rejected"}
    THEN Response("updateHiringStatus", id, 400, "Cannot change status")
  ELSE Response("updateHiringStatus", id, 200, "updated")

\* The hiring document as updateHiringStatus leaves it.
HiringAfterStatus(id, status) ==
  IF UpdateHiringStatusResponse(id, status).code = 200
  THEN IF status = "Cancelled"
       THEN HandleCancellation([hirings[id] EXCEPT !.status = status])
       ELSE [hirings[id] EXCEPT !.status = status]
  ELSE hirings[id]

UpdateHiringStatus(id, status) ==
  /\ hirings' = IF id \in DOMAIN hirings
                THEN [hirings EXCEPT ![id] = HiringAfterStatus(id, status)]
                ELSE hirings
  /\ UNCHANGED <<buses, bookings, now, inflight>>

\* cancelHiring without its status guards (a variant used to test C29).
CancelHiringResponseAnyStatus(id, actor) ==
  IF id \notin DOMAIN hirings
    THEN Response("cancelHiring", id, 404, "Hiring request not found")
  ELSE IF hirings[id].startDate - now < HoursPerDay /\ actor # "admin"
    THEN Response("cancelHiring", id, 400, "less than 24 hours before start")
  ELSE Response("cancelHiring", id, 200, "cancelled")

CancelHiringResponse(id, actor) ==
  IF id \notin DOMAIN hirings
    THEN Response("cancelHiring", id, 404, "Hiring request not found")
  ELSE IF hirings[id].status = "Cancelled"
    THEN Response("cancelHiring", id, 400, "already cancelled")
  ELSE IF hirings[id].status \in {"Completed", "Rejected"}
    THEN Response("cancelHiring", id, 400, "Cannot cancel")
  ELSE IF hirings[id].startDate - now < HoursPerDay /\ actor # "admin"
    THEN Response("cancelHiring", id, 400, "less than 24 hours before start")
  ELSE Response("cancelHiring", id, 200, "cancelled")

\* The hiring document as cancelHiring leaves it.
HiringAfterCancel(id, actor) ==
  IF CancelHiringResponse(id, actor).code = 200
  THEN [HandleCancellation(hirings[id]) EXCEPT !.status = "Cancelled"]
  ELSE hirings[id]

CancelHiring(id, actor) ==
  /\ hirings' = IF id \in DOMAIN hirings
                THEN [hirings EXCEPT ![id] = HiringAfterCancel(id, actor)]
                ELSE hirings
  /\ UNCHANGED <<buses, bookings, now, inflight>>

ApproveHiringResponse(id) ==
  IF id \notin DOMAIN hirings
    THEN Response("approveHiring", id, 404, "Hiring request not found")
  ELSE IF hirings[id].status # "Pending"
    THEN Response("approveHiring", id, 400, "Only pending")
  ELSE Response("approveHiring", id, 200, "approved")

ApproveHiring(id) ==
  /\ hirings' = IF ApproveHiringResponse(id).code = 200
                THEN [hirings EXCEPT ![id].status = "Approved"]
                ELSE hirings
  /\ UNCHANGED <<buses, bookings, now, inflight>>

RejectHiringResponse(id, hasReason) ==
  IF ~hasReason THEN Response("rejectHiring", id, 400, "Rejection reason is required")
  ELSE IF id \notin DOMAIN hirings
    THEN Response("rejectHiring", id, 404, "Hiring request not found")
  ELSE IF hirings[id].status # "Pending"
    THEN Response("rejectHiring", id, 400, "Only pending")
  ELSE Response("rejectHiring", id, 200, "rejected")

\* rejectHiring: a full refund of whatever was paid.
RejectedHiring(h) ==
  LET totalPaid == TotalPaid(h.payments)
      r == [h EXCEPT !.status = "Rejected"]
  IN IF totalPaid > 0
     THEN [r EXCEPT !.payments = Append(@, Entry(-totalPaid)),
                    !.paymentStatus = "Refunded"]
     ELSE r

RejectHiring(id, hasReason) ==
  /\ hirings' = IF RejectHiringResponse(id, hasReason).code = 200
                THEN [hirings EXCEPT ![id] = RejectedHiring(hirings[id])]
                ELSE hirings
  /\ UNCHANGED <<buses, bookings, now, inflight>>

\* a >= b as JavaScript evaluates it when b may be undefined (the empty sequence).
GreaterEqOptional(a, b) == b # <<>> /\ a >= b[1]

\* Hiring.processPayment: the document it saves.
PaidHiring(h, amount) ==
  LET payments == Append(h.payments, Entry(amount))
      totalPaid == TotalPaid(payments)
  IN [h EXCEPT
        !.payments = payments,
        !.paymentStatus = IF GreaterEqOptional(totalPaid, h.totalCost) THEN "Paid"
                          ELSE IF totalPaid > 0 THEN "Partially Paid"
                          ELSE "Pending",
        !.status = IF totalPaid >= h.deposit /\ h.status = "Pending"
                   THEN "Confirmed" ELSE @]

\* processPayment as it would answer if it did not look at the amount.
HiringPaymentResponseAnyAmount(id, amount) ==
  IF id \notin DOMAIN hirings
    THEN Response("hiringPayment", id, 404, "Hiring request not found")
  ELSE IF hirings[id].status \in {"Cancelled", "Rejected"}
    THEN Response("hiringPayment", id, 400, "Cannot process payment")
  ELSE IF hirings[id].paymentStatus = "Paid"
    THEN Response("hiringPayment", id, 400, "already fully paid")
  ELSE Response("hiringPayment", id, 200, "Payment processed")

\* processPayment (hiringController.js): the response.  A missing amount is
\* falsy, as 0 is, and takes the same branch.
HiringPaymentResponse(id, amount) ==
  IF id \notin DOMAIN hirings
    THEN Response("hiringPayment", id, 404, "Hiring request not found")
  ELSE IF hirings[id].status \in {"Cancelled", "Rejected"}
    THEN Response("hiringPayment", id, 400, "Cannot process payment")
  ELSE IF hirings[id].paymentStatus = "Paid"
    THEN Response("hiringPayment", id, 400, "already fully paid")
  ELSE IF amount <= 0
    THEN Response("hiringPayment", id, 400, "Invalid payment amount")
  ELSE Response("hiringPayment", id, 200, "Payment processed")

\* The hiring document as processPayment leaves it.
HiringAfterPayment(id, amount) ==
  IF HiringPaymentResponse(id, amount).code = 200
  THEN PaidHiring(hirings[id], amount)
  ELSE hirings[id]

HiringProcessPayment(id, amount) ==
  /\ hirings' = IF id \in DOMAIN hirings
                THEN [hirings EXCEPT ![id] = HiringAfterPayment(id, amount)]
                ELSE hirings
  /\ UNCHANGED <<buses, bookings, now, inflight>>

(***************************************************************************)
(* Seat bookings: src/controllers/bookingController.js.                    *)
(***************************************************************************)
Routes == {1}
\* A route identifier no Route document has.
UnknownRoute == Cardinality(Routes) + 1

\* bookingValidation: departureDate is required, a given returnDate must be
\* after it, bookingType is one of the two kinds, passengers is not empty.
BookingValidation(req) ==
  /\ req.returnDate # NoDate => req.returnDate > req.departureDate
  /\ req.bookingType \in {"One-Way", "Round-Trip"}
  /\ req.passengers > 0

\* The fare of createBooking and updateBooking, in cents, for `passengers` seats.
BookingFare(passengers, bookingType, promoCode) ==
  LET perTrip == RouteBaseFare * passengers
      tenthsA == IF bookingType = "Round-Trip" THEN 18 ELSE 10
      tenthsB == IF promoCode = "WELCOME10" THEN 9 ELSE 10
  IN RoundDiv(perTrip * tenthsA * tenthsB * 100, 100)

\* The availability query of createBooking for one instant: the Pending or
\* Confirmed bookings on `bus` that depart or return at exactly that instant.
\* (The seat query that follows it is the same query narrowed by seat, so it
\* never finds a booking this one did not.)
BusAvailability(bus, instant) ==
  {i \in DOMAIN bookings :
     /\ bookings[i].bus = bus
     /\ \/ bookings[i].departureDate = instant
        \/ (bookings[i].returnDate # NoDate /\ bookings[i].returnDate = instant)
     /\ bookings[i].status \in {"Pending", "Confirmed"}}

NewBooking(req) ==
  [route |-> req.route, bus |-> req.bus, departureDate |-> req.departureDate,
   returnDate |-> req.returnDate, bookingType |-> req.bookingType,
   passengers |-> req.passengers, promoCode |-> req.promoCode,
   totalFare |-> BookingFare(req.passengers, req.bookingType, req.promoCode),
   status |-> "Pending", paymentStatus |-> "Pending", payments |-> <<>>,
   refundAmount |-> 0]

CreateBookingCheck(req) ==
  IF ~BookingValidation(req) THEN Response("createBooking", 0, 400, "validation")
  ELSE IF req.route \notin Routes
    THEN Response("createBooking", 0, 400, "Route not found")
  ELSE IF req.bus \notin DOMAIN buses
    THEN Response("createBooking", 0, 400, "Bus not found")
  ELSE IF BusAvailability(req.bus, req.departureDate) # {}
    THEN Response("createBooking", 0, 400, "Bus is not available on the selected date")
  ELSE IF req.bookingType = "Round-Trip" /\ req.returnDate # NoDate
          /\ BusAvailability(req.bus, req.returnDate) # {}
    THEN Response("createBooking", 0, 400, "Bus is not available for the return date")
  ELSE Response("createBooking", Len(bookings) + 1, 201, "created")

CreateBooking(req) ==
  /\ bookings' = IF CreateBookingCheck(req).code = 201 THEN Append(bookings, NewBooking(req)) ELSE bookings
  /\ UNCHANGED <<buses, hirings, now, inflight>>

\* updateBooking: a request that passes bookingValidation names departureDate
\* and bookingType, which a regular user may not update.
UpdateBookingResponse(id, req, actor) ==
  IF ~BookingValidation(req) THEN Response("updateBooking", id, 400, "validation")
  ELSE IF id \notin DOMAIN bookings
    THEN Response("updateBooking", id, 404, "Booking not found")
  ELSE IF bookings[id].status \in {"Completed", "Cancelled"}
    THEN Response("updateBooking", id, 400, "Cannot update")
  ELSE IF actor # "admin"
    THEN Response("updateBooking", id, 403, "not authorized to update fields")
  ELSE Response("updateBooking", id, 200, "updated")

UpdatedBooking(b, req) ==
  LET route == IF req.route # 0 THEN req.route ELSE b.route
  IN [b EXCEPT
        !.passengers = req.passengers,
        !.departureDate = req.departureDate,
        !.returnDate = IF req.returnDate # NoDate THEN req.returnDate ELSE @,
        !.route = route,
        !.bus = IF req.bus # 0 THEN req.bus ELSE @,
        !.status = IF req.status # Absent THEN req.status ELSE @,
        !.paymentStatus = IF req.paymentStatus # Absent THEN req.paymentStatus ELSE @,
        !.totalFare = IF route \in Routes
                      THEN BookingFare(req.passengers, b.bookingType, b.promoCode)
                      ELSE @]

UpdateBooking(id, req, actor) ==
  /\ bookings' = IF UpdateBookingResponse(id, req, actor).code = 200
                 THEN [bookings EXCEPT ![id] = UpdatedBooking(bookings[id], req)]
                 ELSE bookings
  /\ UNCHANGED <<buses, hirings, now, inflight>>

BookingStatusValues == {"Pending", "Confirmed", "Cancelled", "Completed", "No-Show"}

UpdateBookingStatusResponse(id, status) ==
  IF status \notin BookingStatusValues
    THEN Response("updateBookingStatus", id, 400, "Status must be one of")
  ELSE IF id \notin DOMAIN bookings
    THEN Response("updateBookingStatus", id, 404, "Booking not found")
  ELSE IF bookings[id].status = "Cancelled" /\ status # "Cancelled"
    THEN Response("updateBookingStatus", id, 400, "cancelled booking")
  ELSE IF bookings[id].status = "Completed" /\ status # "Completed"
    THEN Response("updateBookingStatus", id, 400, "completed booking")
  ELSE Response("updateBookingStatus", id, 200, "updated")

\* The booking document as updateBookingStatus leaves it.
BookingAfterStatus(id, status) ==
  IF UpdateBookingStatusResponse(id, status).code = 200
  THEN [bookings[id] EXCEPT !.status = status]
  ELSE bookings[id]

UpdateBookingStatus(id, status) ==
  /\ bookings' = IF id \in DOMAIN bookings
                 THEN [bookings EXCEPT ![id] = BookingAfterStatus(id, status)]
                 ELSE bookings
  /\ UNCHANGED <<buses, hirings, now, inflight>>

\* The refund percentage of cancelBooking, in percent.
BookingRefundPercentage(hoursToDeparture, actor) ==
  IF hoursToDeparture > 72 THEN 100
  ELSE IF hoursToDeparture > 48 THEN 75
  ELSE IF hoursToDeparture > 24 THEN 50
  ELSE IF actor = "admin" THEN 50
  ELSE 0

\* cancelBooking as it would answer if it did not look at the time left.
CancelBookingResponseAnyTime(id, actor) ==
  IF id \notin DOMAIN bookings
    THEN Response("cancelBooking", id, 404, "Booking not found")
  ELSE IF bookings[id].status = "Cancelled"
    THEN Response("cancelBooking", id, 400, "already cancelled")
  ELSE IF bookings[id].status = "Completed"
    THEN Response("cancelBooking", id, 400, "Cannot cancel a completed booking")
  ELSE Response("cancelBooking", id, 200, "cancelled")

CancelBookingResponse(id, actor) ==
  IF id \notin DOMAIN bookings
    THEN Response("cancelBooking", id, 404, "Booking not found")
  ELSE IF bookings[id].status = "Cancelled"
    THEN Response("cancelBooking", id, 400, "already cancelled")
  ELSE IF bookings[id].status = "Completed"
    THEN Response("cancelBooking", id, 400, "Cannot cancel a completed booking")
  ELSE IF bookings[id].departureDate - now < 24 /\ actor # "admin"
    THEN Response("cancelBooking", id, 400, "less than 24 hours before departure")
  ELSE Response("cancelBooking", id, 200, "cancelled")

CancelledBooking(b, actor) ==
  LET refundPercentage == BookingRefundPercentage(b.departureDate - now, actor)
      refundAmount == IF b.paymentStatus \in {"Paid", "Partially Paid"}
                      THEN RoundDiv(LedgerSum(b.payments) * refundPercentage, 100)
                      ELSE 0
  IN [b EXCEPT !.status = "Cancelled", !.refundAmount = refundAmount]

\* The booking document as cancelBooking leaves it.
BookingAfterCancel(id, actor) ==
  IF CancelBookingResponse(id, actor).code = 200
  THEN CancelledBooking(bookings[id], actor)
  ELSE bookings[id]

CancelBooking(id, actor) ==
  /\ bookings' = IF id \in DOMAIN bookings
                 THEN [bookings EXCEPT ![id] = BookingAfterCancel(id, actor)]
                 ELSE bookings
  /\ UNCHANGED <<buses, hirings, now, inflight>>

\* processPayment without its Cancelled guard (a variant used to test C30).
BookingPaymentResponseAnyStatus(id, amount) ==
  IF id \notin DOMAIN bookings
    THEN Response("bookingPayment", id, 404, "Booking not found")
  ELSE IF bookings[id].paymentStatus = "Paid"
    THEN Response("bookingPayment", id, 400, "already fully paid")
  ELSE IF amount <= 0
    THEN Response("bookingPayment", id, 400, "Invalid payment amount")
  ELSE Response("bookingPayment", id, 200, "Payment processed")

BookingPaymentResponse(id, amount) ==
  IF id \notin DOMAIN bookings
    THEN Response("bookingPayment", id, 404, "Booking not found")
  ELSE IF bookings[id].status = "Cancelled"
    THEN Response("bookingPayment", id, 400, "Cannot process payment")
  ELSE IF bookings[id].paymentStatus = "Paid"
    THEN Response("bookingPayment", id, 400, "already fully paid")
  ELSE IF amount <= 0
    THEN Response("bookingPayment", id, 400, "Invalid payment amount")
  ELSE Response("bookingPayment", id, 200, "Payment processed")

\* processPayment as it would save if any payment confirmed a pending booking.
PaidBookingAnyAmountConfirms(b, amount) ==
  LET payments == Append(b.payments, Entry(amount))
      paymentStatus == IF LedgerSum(payments) >= b.totalFare
                       THEN "Paid" ELSE "Partially Paid"
  IN [b EXCEPT !.payments = payments,
               !.paymentStatus = paymentStatus,
               !.status = IF b.status = "Pending" THEN "Confirmed" ELSE @]

\* processPayment (bookingController.js): the document it saves.
PaidBooking(b, amount) ==
  LET payments == Append(b.payments, Entry(amount))
      paymentStatus == IF LedgerSum(payments) >= b.totalFare
                       THEN "Paid" ELSE "Partially Paid"
  IN [b EXCEPT !.payments = payments,
               !.paymentStatus = paymentStatus,
               !.status = IF paymentStatus = "Paid" /\ b.status = "Pending"
                          THEN "Confirmed" ELSE @]

\* The booking document as processPayment leaves it.
BookingAfterPayment(id, amount) ==
  IF BookingPaymentResponse(id, amount).code = 200
  THEN PaidBooking(bookings[id], amount)
  ELSE bookings[id]

BookingProcessPayment(id, amount) ==
  /\ bookings' = IF id \in DOMAIN bookings
                 THEN [bookings EXCEPT ![id] = BookingAfterPayment(id, amount)]
                 ELSE bookings
  /\ UNCHANGED <<buses, hirings, now, inflight>>

(***************************************************************************)
(* Buses: src/controllers/busController.js, and the clock.                 *)
(***************************************************************************)
\* updateBusStatus: the reservations that start within the next seven days.
UpcomingBookings(bus) ==
  {i \in DOMAIN bookings :
     /\ bookings[i].bus = bus
     /\ bookings[i].departureDate >= now
     /\ bookings[i].departureDate <= now + 7 * HoursPerDay
     /\ bookings[i].status \in {"Confirmed", "Pending"}}

UpcomingHirings(bus) ==
  {i \in DOMAIN hirings :
     /\ hirings[i].bus = bus
     /\ hirings[i].startDate >= now
     /\ hirings[i].startDate <= now + 7 * HoursPerDay
     /\ hirings[i].status \in {"Confirmed", "Pending"}}

UpdateBusStatusResponse(bus, status) ==
  IF status \notin BusStatuses
    THEN Response("updateBusStatus", bus, 400, "Status must be one of")
  ELSE IF bus \notin DOMAIN buses
    THEN Response("updateBusStatus", bus, 404, "Bus not found")
  ELSE IF status # "Active" /\ buses[bus] = "Active"
          /\ (UpcomingBookings(bus) # {} \/ UpcomingHirings(bus) # {})
    THEN Response("updateBusStatus", bus, 400, "Cannot change status")
  ELSE Response("updateBusStatus", bus, 200, "updated")

UpdateBusStatus(bus, status) ==
  /\ buses' = IF UpdateBusStatusResponse(bus, status).code = 200 THEN [buses EXCEPT ![bus] = status] ELSE buses
  /\ UNCHANGED <<hirings, bookings, now, inflight>>

\* Time passes.
Tick ==
  /\ now < MaxNow * DateStep
  /\ now' = now + DateStep
  /\ UNCHANGED <<buses, hirings, bookings, inflight>>

(***************************************************************************)
(* Spec: scheduling.  Every handler that creates a reservation, moves its  *)
(* window or bus, or changes its status or the status of a bus, as one     *)
(* atomic step.  The clock stands at 0.  (The payment handlers change a    *)
(* status only from Pending to Confirmed, which UpdateHiringStatus and     *)
(* UpdateBookingStatus do as well; SpecHiring and SpecBooking hold them.)  *)
(***************************************************************************)
Init ==
  /\ buses = [b \in BusIds |-> "Active"]
  /\ hirings = <<>>
  /\ bookings = <<>>
  /\ now = 0
  /\ inflight = <<>>

\* Requests name a window that ends after it starts, or an empty one.
HiringRequests ==
  {req \in [bus : BusIds \cup {UnknownBus}, startDate : Dates, endDate : Dates,
            estimatedDistance : {0}, numberOfPassengers : {10},
            additionalServices : {<<>>}] : req.endDate >= req.startDate}

HiringUpdates ==
  {req \in [bus : {0} \cup BusIds, startDate : Dates, endDate : Dates,
            numberOfPassengers : {0}, setServices : {FALSE},
            additionalServices : {<<>>}] : req.endDate >= req.startDate}

HiringStatusInputs == HiringStatusValues \cup {"Refunded"}

BookingRequests ==
  [route : Routes \cup {UnknownRoute}, bus : BusIds \cup {UnknownBus},
   departureDate : Dates, returnDate : Dates \cup {NoDate},
   bookingType : {"One-Way", "Round-Trip"}, passengers : {1}, promoCode : {""}]

BookingUpdates ==
  [route : {0}, bus : {0} \cup BusIds, departureDate : Dates, returnDate : {NoDate},
   bookingType : {"One-Way"}, passengers : {1},
   status : {Absent, "Pending"}, paymentStatus : {Absent}]

BookingStatusInputs == BookingStatusValues \cup {"Refunded"}

\* The bus whose status the administrator changes, and the statuses given.
ServicedBuses == {2}
BusStatusInputs == {"Active", "Maintenance", "Reserved"}

\* The bounds of Spec: how many reservations exist.
RoomForHiring ==
  Len(hirings) < MaxHirings /\ Len(hirings) + Len(bookings) < MaxReservations
RoomForBooking ==
  Len(bookings) < MaxBookings /\ Len(hirings) + Len(bookings) < MaxReservations

Next ==
  \/ \E req \in HiringRequests : RoomForHiring /\ CreateHiring(req)
  \/ \E id \in DOMAIN hirings, req \in HiringUpdates, actor \in Actors :
       UpdateHiring(id, req, actor)
  \/ \E id \in DOMAIN hirings, status \in HiringStatusInputs :
       UpdateHiringStatus(id, status)
  \/ \E id \in DOMAIN hirings, actor \in Actors : CancelHiring(id, actor)
  \/ \E id \in DOMAIN hirings : ApproveHiring(id)
  \/ \E id \in DOMAIN hirings, hasReason \in BOOLEAN : RejectHiring(id, hasReason)
  \/ \E req \in BookingRequests : RoomForBooking /\ CreateBooking(req)
  \/ \E id \in DOMAIN bookings, req \in BookingUpdates, actor \in Actors :
       UpdateBooking(id, req, actor)
  \/ \E id \in DOMAIN bookings, status \in BookingStatusInputs :
       UpdateBookingStatus(id, status)
  \/ \E id \in DOMAIN bookings, actor \in Actors : CancelBooking(id, actor)
  \/ \E bus \in ServicedBuses, status \in BusStatusInputs : UpdateBusStatus(bus, status)

Spec == Init /\ [][Next]_vars

(***************************************************************************)
(* Properties of Spec.                                                     *)
(***************************************************************************)
\* spec.md section 4.1: [s1, e1] and [s2, e2] overlap iff s1 <= e2 and s2 <= e1.
Overlap(s1, e1, s2, e2) == s1 <= e2 /\ s2 <= e1

\* The window of a seat booking: departure to return, or the departure instant.
BookingEnd(b) == IF b.returnDate # NoDate THEN b.returnDate ELSE b.departureDate

LiveHirings == {i \in DOMAIN hirings : hirings[i].status \in HiringLive}
LiveBookings == {i \in DOMAIN bookings : bookings[i].status \in BookingLive}

\* The live reservations on `bus` that overlap [s, e], leaving out hiring
\* `selfH` and booking `selfB` (0 leaves out nothing).
OverlappingHirings(bus, s, e, selfH) ==
  {i \in LiveHirings : i # selfH /\ hirings[i].bus = bus
                       /\ Overlap(hirings[i].startDate, hirings[i].endDate, s, e)}
OverlappingBookings(bus, s, e, selfB) ==
  {i \in LiveBookings : i # selfB /\ bookings[i].bus = bus
                        /\ Overlap(bookings[i].departureDate, BookingEnd(bookings[i]), s, e)}

\* C1: no two live reservations on the same bus have overlapping windows.
C1_NoLiveOverlap ==
  /\ \A i \in LiveHirings :
       /\ OverlappingHirings(hirings[i].bus, hirings[i].startDate, hirings[i].endDate, i) = {}
       /\ OverlappingBookings(hirings[i].bus, hirings[i].startDate, hirings[i].endDate, 0) = {}
  /\ \A i \in LiveBookings :
       OverlappingBookings(bookings[i].bus, bookings[i].departureDate,
                           BookingEnd(bookings[i]), i) = {}

\* C3: a creation request of either kind is rejected when a live reservation
\* of the other kind holds the same bus over an overlapping window.
C3_CrossKindRejected ==
  /\ \A req \in HiringRequests :
       OverlappingBookings(req.bus, req.startDate, req.endDate, 0) # {}
         => CreateHiringCheck(req).code # 201
  /\ \A req \in BookingRequests :
       OverlappingHirings(req.bus, req.departureDate,
                          BookingEnd(req), 0) # {}
         => CreateBookingCheck(req).code # 201

\* A hiring request that passes validation and names a bus that exists.
WellFormedHiringRequests ==
  {req \in HiringRequests : HiringValidation(req) /\ req.bus \in DOMAIN buses}

\* The hirings on `bus`, in one of `statuses`, whose window overlaps [s, e].
HiringsIn(statuses, bus, s, e) ==
  {i \in DOMAIN hirings :
     /\ hirings[i].status \in statuses /\ hirings[i].bus = bus
     /\ Overlap(hirings[i].startDate, hirings[i].endDate, s, e)}

\* C4: an overlapping hiring that is Pending, Approved, Confirmed or In
\* Progress blocks createHiring; overlapping hirings that are Cancelled,
\* Rejected or Completed never do.
C4_BlockingStatuses ==
  \A req \in WellFormedHiringRequests :
    /\ HiringsIn(HiringLive, req.bus, req.startDate, req.endDate) # {}
         => CreateHiringCheck(req).code = 400
    /\ HiringsIn(HiringLive, req.bus, req.startDate, req.endDate) = {}
         => CreateHiringCheck(req).code = 201

\* The bus and window a hiring has after an administrator's update.
HiringAfter(id, req) == UpdatedHiring(hirings[id], req, "admin")
BookingAfter(id, req) == UpdatedBooking(bookings[id], req)

\* C5: an update that changes the bus or the window is accepted if and only
\* if no other live reservation overlaps the new window on the resulting bus.
C5_UpdateRechecked ==
  /\ \A id \in DOMAIN hirings, req \in HiringUpdates :
       LET after == HiringAfter(id, req)
           changed == \/ after.bus # hirings[id].bus
                      \/ after.startDate # hirings[id].startDate
                      \/ after.endDate # hirings[id].endDate
           free == /\ OverlappingHirings(after.bus, after.startDate, after.endDate, id) = {}
                   /\ OverlappingBookings(after.bus, after.startDate, after.endDate, 0) = {}
       IN (HiringValidation(req) /\ changed /\ hirings[id].status \in HiringLive)
            => (UpdateHiringResponse(id, req, "admin").code = 200 <=> free)
  /\ \A id \in DOMAIN bookings, req \in BookingUpdates :
       LET after == BookingAfter(id, req)
           changed == \/ after.bus # bookings[id].bus
                      \/ after.departureDate # bookings[id].departureDate
                      \/ after.returnDate # bookings[id].returnDate
           free == /\ OverlappingHirings(after.bus, after.departureDate, BookingEnd(after), 0) = {}
                   /\ OverlappingBookings(after.bus, after.departureDate, BookingEnd(after), id) = {}
       IN (BookingValidation(req) /\ changed /\ bookings[id].status \in BookingLive)
            => (UpdateBookingResponse(id, req, "admin").code = 200 <=> free)

\* C6: a creation request is accepted only if the bus it names exists and is
\* Active.
C6_BusExistsAndActive ==
  /\ \A req \in HiringRequests :
       CreateHiringCheck(req).code = 201
         => (req.bus \in DOMAIN buses /\ buses[req.bus] = "Active")
  /\ \A req \in BookingRequests :
       CreateBookingCheck(req).code = 201
         => (req.bus \in DOMAIN buses /\ buses[req.bus] = "Active")

\* The windows the specification calls invalid.
InvalidHiringWindow(req) == req.endDate <= req.startDate
InvalidBookingWindow(req) ==
  \/ (req.returnDate # NoDate /\ req.returnDate <= req.departureDate)
  \/ (req.bookingType = "Round-Trip" /\ req.returnDate = NoDate)

\* C7: a creation or update request whose window ends at or before its start,
\* or a round trip without a return after its departure, is rejected as an
\* invalid window and stores nothing.
C7_InvalidWindowRejected ==
  /\ \A req \in HiringRequests :
       InvalidHiringWindow(req)
         => (CreateHiringCheck(req).code = 400 /\ CreateHiringCheck(req).msg = "validation")
  /\ \A id \in DOMAIN hirings, req \in HiringUpdates, actor \in Actors :
       InvalidHiringWindow(req)
         => (UpdateHiringResponse(id, req, actor).code = 400
             /\ UpdateHiringResponse(id, req, actor).msg = "validation")
  /\ \A req \in BookingRequests :
       InvalidBookingWindow(req)
         => (CreateBookingCheck(req).code = 400 /\ CreateBookingCheck(req).msg = "validation")
  /\ \A id \in DOMAIN bookings, req \in BookingUpdates, actor \in Actors :
       InvalidBookingWindow(req)
         => (UpdateBookingResponse(id, req, actor).code = 400
             /\ UpdateBookingResponse(id, req, actor).msg = "validation")

(***************************************************************************)
(* SpecConc: creation requests served concurrently.  A create handler      *)
(* yields at every await, so another request may run between its conflict  *)
(* query and its save.  `inflight` lists the requests received, each with  *)
(* the position its handler has reached.                                   *)
(***************************************************************************)
Request(kind, req, pc) == [kind |-> kind, req |-> req, pc |-> pc]

\* createHiring up to its conflict query: the request is rejected, or goes on
\* to build its document.
CheckHiring(req) ==
  /\ inflight' = Append(inflight,
                        Request("hiring", req,
                                IF CreateHiringCheck(req).code = 201
                                THEN "checked" ELSE "rejected"))
  /\ UNCHANGED <<buses, hirings, bookings, now>>

\* createHiring from newHiring.save() on.
SaveHiring(k) ==
  /\ inflight[k].kind = "hiring" /\ inflight[k].pc = "checked"
  /\ hirings' = Append(hirings, NewHiring(inflight[k].req))
  /\ inflight' = [inflight EXCEPT ![k].pc = "saved"]
  /\ UNCHANGED <<buses, bookings, now>>

\* createBooking up to its availability queries.
CheckBooking(req) ==
  /\ inflight' = Append(inflight,
                        Request("booking", req,
                                IF CreateBookingCheck(req).code = 201
                                THEN "checked" ELSE "rejected"))
  /\ UNCHANGED <<buses, hirings, bookings, now>>

\* createBooking from newBooking.save() on.
SaveBooking(k) ==
  /\ inflight[k].kind = "booking" /\ inflight[k].pc = "checked"
  /\ bookings' = Append(bookings, NewBooking(inflight[k].req))
  /\ inflight' = [inflight EXCEPT ![k].pc = "saved"]
  /\ UNCHANGED <<buses, hirings, now>>

\* How many creation requests SpecConc receives.
MaxRequests == 2

\* Requests that pass validation and name a bus and a route that exist.
ConcHiringRequests == {req \in WellFormedHiringRequests : req.startDate <= DateStep}
ConcBookingRequests ==
  {req \in BookingRequests :
     /\ BookingValidation(req) /\ req.bus \in DOMAIN buses /\ req.route \in Routes
     /\ req.departureDate <= DateStep}

NextConc ==
  \/ \E req \in ConcHiringRequests : Len(inflight) < MaxRequests /\ CheckHiring(req)
  \/ \E k \in DOMAIN inflight : SaveHiring(k)
  \/ \E req \in ConcBookingRequests : Len(inflight) < MaxRequests /\ CheckBooking(req)
  \/ \E k \in DOMAIN inflight : SaveBooking(k)

SpecConc == Init /\ [][NextConc]_vars

\* Two requests of one kind compete when they name the same bus and
\* overlapping windows (for seat bookings, the same departure instant).
Competing(a, b) ==
  /\ a.kind = b.kind /\ a.req.bus = b.req.bus
  /\ IF a.kind = "hiring"
     THEN Overlap(a.req.startDate, a.req.endDate, b.req.startDate, b.req.endDate)
     ELSE a.req.departureDate = b.req.departureDate

\* C2: of two competing creation requests served concurrently, exactly one is
\* stored and the other is rejected.
C2_ExactlyOneSucceeds ==
  \A i, j \in DOMAIN inflight :
    (i < j /\ Competing(inflight[i], inflight[j])
     /\ inflight[i].pc # "checked" /\ inflight[j].pc # "checked")
      => \/ (inflight[i].pc = "saved" /\ inflight[j].pc = "rejected")
         \/ (inflight[i].pc = "rejected" /\ inflight[j].pc = "saved")

(***************************************************************************)
(* SpecFare: the totals create and update store, over requests whose       *)
(* distance, passenger count and services vary.                            *)
(***************************************************************************)
\* How many reservations of each kind SpecFare stores.
MaxFared == 1

Distances == {0 - 100, 0, 300}
PassengerCounts == {0 - 11, 0, 10}
ServiceLists == {<<>>, <<"food">>, <<"driver", "wifi">>, <<"guide", "food">>}

FareHiringRequests ==
  [bus : {1}, startDate : {0}, endDate : Dates, estimatedDistance : Distances,
   numberOfPassengers : PassengerCounts, additionalServices : ServiceLists]

FareHiringUpdates ==
  [bus : {0}, startDate : {0}, endDate : Dates, numberOfPassengers : PassengerCounts,
   setServices : BOOLEAN, additionalServices : {<<>>, <<"food">>}]

FareBookingRequests ==
  [route : Routes, bus : {2}, departureDate : {0}, returnDate : {NoDate, DateStep},
   bookingType : {"One-Way", "Round-Trip"}, passengers : 0..2,
   promoCode : {"", "WELCOME10"}]

FareBookingUpdates ==
  [route : {0, UnknownRoute}, bus : {0}, departureDate : {0}, returnDate : {NoDate},
   bookingType : {"One-Way"}, passengers : 0..3,
   status : {Absent}, paymentStatus : {Absent}]

NextFare ==
  \/ \E req \in FareHiringRequests : Len(hirings) < MaxFared /\ CreateHiring(req)
  \/ \E id \in DOMAIN hirings, req \in FareHiringUpdates, actor \in Actors :
       UpdateHiring(id, req, actor)
  \/ \E req \in FareBookingRequests : Len(bookings) < MaxFared /\ CreateBooking(req)
  \/ \E id \in DOMAIN bookings, req \in FareBookingUpdates, actor \in Actors :
       UpdateBooking(id, req, actor)

SpecFare == Init /\ [][NextFare]_vars

\* C8: the total stored for a reservation is never negative, whatever the
\* create or update request that produced it.
C8_TotalNonNegative ==
  /\ \A i \in DOMAIN hirings : hirings[i].totalFare >= 0
  /\ \A i \in DOMAIN bookings : bookings[i].totalFare >= 0

(***************************************************************************)
(* SpecHiring: the life of one hiring, through every handler that touches  *)
(* it, with payments and the passing of time.                              *)
(***************************************************************************)
PayAmounts == {0 - 20000, 0, 20000, 50000}

LifeHiringRequests == {req \in HiringRequests : req.bus = 1}
LifeHiringUpdates == {req \in HiringUpdates : req.bus \in {0, 2}}

NextHiring ==
  \/ \E req \in LifeHiringRequests : hirings = <<>> /\ CreateHiring(req)
  \/ \E id \in DOMAIN hirings, req \in LifeHiringUpdates, actor \in Actors :
       UpdateHiring(id, req, actor)
  \/ \E id \in DOMAIN hirings, status \in HiringStatusInputs :
       UpdateHiringStatus(id, status)
  \/ \E id \in DOMAIN hirings, actor \in Actors : CancelHiring(id, actor)
  \/ \E id \in DOMAIN hirings : ApproveHiring(id)
  \/ \E id \in DOMAIN hirings, hasReason \in BOOLEAN : RejectHiring(id, hasReason)
  \/ \E id \in DOMAIN hirings, amount \in PayAmounts :
       /\ Len(hirings[id].payments) < MaxPayments
       /\ HiringProcessPayment(id, amount)
  \/ Tick

SpecHiring == Init /\ [][NextHiring]_vars

\* C9: a hiring that is Completed, Rejected, Cancelled or Refunded keeps that
\* status through every later operation, and every request to change its
\* status (updateHiringStatus, approveHiring, rejectHiring, cancelHiring,
\* updateHiring) is answered with an error.
C9_TerminalIsFinal ==
  /\ [](\A id \in DOMAIN hirings :
          hirings[id].status \in HiringTerminal =>
            /\ \A status \in HiringStatusInputs :
                 UpdateHiringStatusResponse(id, status).code = 400
            /\ ApproveHiringResponse(id).code = 400
            /\ \A hasReason \in BOOLEAN : RejectHiringResponse(id, hasReason).code = 400
            /\ \A actor \in Actors : CancelHiringResponse(id, actor).code = 400
            /\ \A req \in LifeHiringUpdates, actor \in Actors :
                 UpdateHiringResponse(id, req, actor).code = 400)
  /\ [][\A id \in DOMAIN hirings :
          hirings[id].status \in HiringTerminal =>
            (id \in DOMAIN hirings' /\ hirings'[id].status = hirings[id].status)]_vars

\* A completed hiring that carries a payment, at a later instant.
C9_Witness ==
  \E id \in DOMAIN hirings :
    /\ hirings[id].status = "Completed"
    /\ hirings[id].payments # <<>>
    /\ now > 0

(***************************************************************************)
(* SpecBooking: the life of one seat booking, through every handler that   *)
(* touches it, with payments and the passing of time.                      *)
(***************************************************************************)
BookingPayAmounts == {0 - 4000, 0, 4000, 10000}

LifeBookingRequests == {req \in BookingRequests : req.bus = 1}
LifeBookingUpdates ==
  [route : {0}, bus : {0}, departureDate : Dates, returnDate : {NoDate},
   bookingType : {"One-Way"}, passengers : {1},
   status : {Absent, "Pending", "Refunded"}, paymentStatus : {Absent, "Paid"}]

NextBooking ==
  \/ \E req \in LifeBookingRequests : bookings = <<>> /\ CreateBooking(req)
  \/ \E id \in DOMAIN bookings, req \in LifeBookingUpdates, actor \in Actors :
       UpdateBooking(id, req, actor)
  \/ \E id \in DOMAIN bookings, status \in BookingStatusInputs :
       UpdateBookingStatus(id, status)
  \/ \E id \in DOMAIN bookings, actor \in Actors : CancelBooking(id, actor)
  \/ \E id \in DOMAIN bookings, amount \in BookingPayAmounts :
       /\ Len(bookings[id].payments) < MaxPayments
       /\ BookingProcessPayment(id, amount)
  \/ Tick

SpecBooking == Init /\ [][NextBooking]_vars

\* C10: a seat booking that is Completed, Cancelled, No-Show or Refunded keeps
\* that status through every later operation (updateBookingStatus,
\* updateBooking by an admin, cancelBooking, processPayment).
C10_TerminalIsFinal ==
  [][\A id \in DOMAIN bookings :
       bookings[id].status \in BookingTerminal =>
         (id \in DOMAIN bookings' /\ bookings'[id].status = bookings[id].status)]_vars

(***************************************************************************)
(* The lifecycle state machines of spec.md section 4.5.                    *)
(***************************************************************************)
HiringEdges ==
  {<<"Pending", "Approved">>, <<"Pending", "Confirmed">>,
   <<"Approved", "In Progress">>, <<"Confirmed", "In Progress">>,
   <<"In Progress", "Completed">>, <<"Pending", "Rejected">>,
   <<"Pending", "Cancelled">>, <<"Approved", "Cancelled">>,
   <<"Confirmed", "Cancelled">>}

BookingEdges ==
  {<<"Pending", "Confirmed">>, <<"Confirmed", "Completed">>,
   <<"Pending", "Cancelled">>, <<"Confirmed", "Cancelled">>,
   <<"Pending", "No-Show">>, <<"Confirmed", "No-Show">>}

\* C11: every change of a reservation's status follows an edge of its
\* lifecycle state machine; in particular nothing returns a Confirmed or In
\* Progress reservation to Pending.
C11_StatusFollowsEdges ==
  [][/\ \A id \in DOMAIN hirings :
          (id \in DOMAIN hirings' /\ hirings'[id].status # hirings[id].status)
            => <<hirings[id].status, hirings'[id].status>> \in HiringEdges
     /\ \A id \in DOMAIN bookings :
          (id \in DOMAIN bookings' /\ bookings'[id].status # bookings[id].status)
            => <<bookings[id].status, bookings'[id].status>> \in BookingEdges]_vars

(***************************************************************************)
(* SpecPay: one hiring and one seat booking, each paid in instalments,     *)
(* moved through its statuses and cancelled, while time passes.            *)
(***************************************************************************)
PayHiringRequests == {req \in LifeHiringRequests : req.startDate = MaxDate * DateStep - DateStep
                                                    /\ req.endDate = MaxDate * DateStep}
PayBookingRequests ==
  {req \in LifeBookingRequests :
     /\ req.departureDate = MaxDate * DateStep /\ req.returnDate = NoDate
     /\ req.bookingType = "One-Way" /\ req.route \in Routes}

NextPay ==
  \/ \E req \in PayHiringRequests : hirings = <<>> /\ CreateHiring(req)
  \/ \E id \in DOMAIN hirings, status \in HiringStatusValues :
       UpdateHiringStatus(id, status)
  \/ \E id \in DOMAIN hirings, actor \in Actors : CancelHiring(id, actor)
  \/ \E id \in DOMAIN hirings, amount \in PayAmounts :
       /\ Len(hirings[id].payments) < MaxPayments
       /\ HiringProcessPayment(id, amount)
  \/ \E req \in PayBookingRequests : bookings = <<>> /\ CreateBooking(req)
  \/ \E id \in DOMAIN bookings, status \in BookingStatusValues :
       UpdateBookingStatus(id, status)
  \/ \E id \in DOMAIN bookings, actor \in Actors : CancelBooking(id, actor)
  \/ \E id \in DOMAIN bookings, amount \in BookingPayAmounts :
       /\ Len(bookings[id].payments) < MaxPayments
       /\ BookingProcessPayment(id, amount)
  \/ Tick

SpecPay == Init /\ [][NextPay]_vars

\* C12: a payment request whose amount is zero, negative or missing is
\* answered with an error, which is "Invalid payment amount" whenever the
\* reservation is open to payment, and leaves the reservation (its ledger,
\* paymentStatus and status) as it was.
C12_InvalidAmountRejected ==
  /\ \A id \in DOMAIN hirings, amount \in PayAmounts :
       amount <= 0 =>
         /\ HiringPaymentResponse(id, amount).code = 400
         /\ (hirings[id].status \notin {"Cancelled", "Rejected"}
               /\ hirings[id].paymentStatus # "Paid")
              => HiringPaymentResponse(id, amount).msg = "Invalid payment amount"
         /\ HiringAfterPayment(id, amount) = hirings[id]
  /\ \A id \in DOMAIN bookings, amount \in BookingPayAmounts :
       amount <= 0 =>
         /\ BookingPaymentResponse(id, amount).code = 400
         /\ (bookings[id].status # "Cancelled" /\ bookings[id].paymentStatus # "Paid")
              => BookingPaymentResponse(id, amount).msg = "Invalid payment amount"
         /\ BookingAfterPayment(id, amount) = bookings[id]

\* A hiring and a seat booking, both part paid and still open to payment.
C12_Witness ==
  /\ \E id \in DOMAIN hirings :
       /\ hirings[id].paymentStatus = "Partially Paid"
       /\ hirings[id].status = "Confirmed"
       /\ HiringPaymentResponse(id, 0 - 20000).msg = "Invalid payment amount"
  /\ \E id \in DOMAIN bookings :
       /\ bookings[id].paymentStatus = "Partially Paid"
       /\ bookings[id].status = "Pending"
       /\ BookingPaymentResponse(id, 0).msg = "Invalid payment amount"

\* C13: a payment request on a reservation that is Paid, or whose Completed
\* ledger entries already sum to its total, is answered with an error and
\* appends no ledger entry.
C13_PaidIsSettled ==
  /\ \A id \in DOMAIN hirings, amount \in PayAmounts :
       (\/ hirings[id].paymentStatus = "Paid"
        \/ TotalPaid(hirings[id].payments) >= hirings[id].totalFare)
         => /\ HiringPaymentResponse(id, amount).code = 400
            /\ HiringAfterPayment(id, amount).payments = hirings[id].payments
  /\ \A id \in DOMAIN bookings, amount \in BookingPayAmounts :
       (\/ bookings[id].paymentStatus = "Paid"
        \/ TotalPaid(bookings[id].payments) >= bookings[id].totalFare)
         => /\ BookingPaymentResponse(id, amount).code = 400
            /\ BookingAfterPayment(id, amount).payments = bookings[id].payments

\* A step that appends a charge to a ledger: an accepted payment.
Charged(before, after) ==
  /\ Len(after.payments) = Len(before.payments) + 1
  /\ after.payments[Len(after.payments)].amount > 0

\* The status an accepted payment must leave, given the amount required.
ConfirmedIffReached(before, after, required) ==
  IF before.status = "Pending"
  THEN /\ after.status \in {"Pending", "Confirmed"}
       /\ after.status = "Confirmed" <=> TotalPaid(after.payments) >= required
  ELSE after.status = before.status

\* C14: an accepted payment on a Pending reservation leaves it Confirmed
\* exactly when the Completed ledger entries then sum to at least the amount
\* required (the deposit of a hiring, the total fare of a seat booking) and
\* Pending otherwise; an accepted payment on a reservation that is not Pending
\* leaves its status alone.
C14_ConfirmedIffReached ==
  [][/\ \A id \in DOMAIN hirings :
          (id \in DOMAIN hirings' /\ Charged(hirings[id], hirings'[id]))
            => ConfirmedIffReached(hirings[id], hirings'[id], hirings'[id].deposit)
     /\ \A id \in DOMAIN bookings :
          (id \in DOMAIN bookings' /\ Charged(bookings[id], bookings'[id]))
            => ConfirmedIffReached(bookings[id], bookings'[id],
                                   bookings'[id].totalFare)]_vars

\* A seat booking that two instalments confirmed, beside a hiring that a
\* payment confirmed and that was paid again once in progress.
C14_Witness ==
  /\ \E id \in DOMAIN bookings :
       /\ bookings[id].status = "Confirmed"
       /\ Len(bookings[id].payments) = MaxPayments
       /\ TotalPaid(bookings[id].payments) >= bookings[id].totalFare
  /\ \E id \in DOMAIN hirings :
       /\ hirings[id].status = "In Progress"
       /\ Len(hirings[id].payments) = MaxPayments

(***************************************************************************)
(* SpecPayConc: payment requests served concurrently.  processPayment      *)
(* loads the reservation (findById), decides on the loaded copy and saves  *)
(* it; other requests are served between its load and its save.  A save    *)
(* writes the paths the request changed: either the ledger entry is pushed *)
(* onto the stored ledger, or the whole ledger of the copy is written.     *)
(***************************************************************************)
SaveModes == {"push", "set"}

\* What document.save() stores for a copy `loaded` that became `paid`.
Saved(stored, loaded, paid, mode) ==
  [stored EXCEPT
     !.payments = IF mode = "push"
                  THEN Append(@, paid.payments[Len(paid.payments)])
                  ELSE paid.payments,
     !.paymentStatus = IF paid.paymentStatus # loaded.paymentStatus
                       THEN paid.paymentStatus ELSE @,
     !.status = IF paid.status # loaded.status THEN paid.status ELSE @]

\* The request's position once it has saved: whether it made the transition
\* from Pending to Confirmed (and recorded and announced it).
AfterSave(loaded, paid) ==
  IF loaded.status = "Pending" /\ paid.status = "Confirmed" THEN "confirmed" ELSE "saved"

\* processPayment (hiringController.js) up to the call of hiring.processPayment.
LoadHiringPayment(id, amount) ==
  /\ inflight' = Append(inflight,
                        Request("hiringPayment",
                                [id |-> id, amount |-> amount, loaded |-> hirings[id]],
                                IF HiringPaymentResponse(id, amount).code = 200
                                THEN "loaded" ELSE "rejected"))
  /\ UNCHANGED <<buses, hirings, bookings, now>>

\* Hiring.processPayment, through this.save().
SaveHiringPayment(k, mode) ==
  /\ inflight[k].kind = "hiringPayment" /\ inflight[k].pc = "loaded"
  /\ LET req == inflight[k].req
         paid == PaidHiring(req.loaded, req.amount)
     IN /\ hirings' = [hirings EXCEPT ![req.id] = Saved(@, req.loaded, paid, mode)]
        /\ inflight' = [inflight EXCEPT ![k].pc = AfterSave(req.loaded, paid)]
  /\ UNCHANGED <<buses, bookings, now>>

\* processPayment (bookingController.js) up to the payment gateway.
LoadBookingPayment(id, amount) ==
  /\ inflight' = Append(inflight,
                        Request("bookingPayment",
                                [id |-> id, amount |-> amount, loaded |-> bookings[id]],
                                IF BookingPaymentResponse(id, amount).code = 200
                                THEN "loaded" ELSE "rejected"))
  /\ UNCHANGED <<buses, hirings, bookings, now>>

\* processPayment (bookingController.js) from the ledger entry to booking.save().
SaveBookingPayment(k, mode) ==
  /\ inflight[k].kind = "bookingPayment" /\ inflight[k].pc = "loaded"
  /\ LET req == inflight[k].req
         paid == PaidBooking(req.loaded, req.amount)
     IN /\ bookings' = [bookings EXCEPT ![req.id] = Saved(@, req.loaded, paid, mode)]
        /\ inflight' = [inflight EXCEPT ![k].pc = AfterSave(req.loaded, paid)]
  /\ UNCHANGED <<buses, hirings, now>>

NextPayConc ==
  \/ \E req \in PayHiringRequests : hirings = <<>> /\ inflight = <<>> /\ CreateHiring(req)
  \/ \E req \in PayBookingRequests : bookings = <<>> /\ inflight = <<>> /\ CreateBooking(req)
  \/ \E id \in DOMAIN hirings, amount \in PayAmounts :
       Len(inflight) < MaxRequests /\ LoadHiringPayment(id, amount)
  \/ \E k \in DOMAIN inflight, mode \in SaveModes : SaveHiringPayment(k, mode)
  \/ \E id \in DOMAIN bookings, amount \in BookingPayAmounts :
       Len(inflight) < MaxRequests /\ LoadBookingPayment(id, amount)
  \/ \E k \in DOMAIN inflight, mode \in SaveModes : SaveBookingPayment(k, mode)

SpecPayConc == Init /\ [][NextPayConc]_vars

\* C15: of the payment requests served concurrently on one reservation, at
\* most one makes the transition from Pending to Confirmed.
C15_AtMostOneConfirms ==
  \A a, b \in DOMAIN inflight :
    (/\ a # b
     /\ inflight[a].kind = inflight[b].kind
     /\ inflight[a].req.id = inflight[b].req.id
     /\ inflight[a].pc = "confirmed")
      => inflight[b].pc # "confirmed"

\* The paymentStatus label the ledger derives against a total.
DerivedPaymentStatus(payments, total) ==
  IF TotalPaid(payments) >= total THEN {"Paid"}
  ELSE IF TotalPaid(payments) > 0 THEN {"Partially Paid"}
  ELSE {"Unpaid", "Pending"}

\* C16: after every accepted payment the paymentStatus is the one the ledger
\* derives: Paid when the Completed entries sum to at least the total,
\* Partially Paid when they sum to more than 0 and less than the total, and
\* Unpaid or Pending when they sum to 0.
C16_PaymentStatusDerived ==
  [][/\ \A id \in DOMAIN hirings :
          (id \in DOMAIN hirings' /\ Charged(hirings[id], hirings'[id]))
            => hirings'[id].paymentStatus
                 \in DerivedPaymentStatus(hirings'[id].payments, hirings'[id].totalFare)
     /\ \A id \in DOMAIN bookings :
          (id \in DOMAIN bookings' /\ Charged(bookings[id], bookings'[id]))
            => bookings'[id].paymentStatus
                 \in DerivedPaymentStatus(bookings'[id].payments,
                                          bookings'[id].totalFare)]_vars

\* A step that cancels a reservation.
Cancels(before, after) == before.status # "Cancelled" /\ after.status = "Cancelled"

\* C17: a cancellation refunds round(totalPaid * refundPercentage) of the
\* Completed ledger entries and records it as a negative ledger entry, so the
\* Completed entries afterwards sum to totalPaid minus the refund amount, for
\* hirings and for seat bookings.
C17_RefundOnLedger ==
  [][/\ \A id \in DOMAIN hirings :
          (id \in DOMAIN hirings' /\ Cancels(hirings[id], hirings'[id]))
            => TotalPaid(hirings'[id].payments)
                 = TotalPaid(hirings[id].payments)
                   - RoundDiv(TotalPaid(hirings[id].payments)
                                * HiringRefundPercentage(hirings[id].cancellationPolicy,
                                                         hirings[id].startDate - now),
                              100)
     /\ \A id \in DOMAIN bookings :
          (id \in DOMAIN bookings' /\ Cancels(bookings[id], bookings'[id]))
            => TotalPaid(bookings'[id].payments)
                 = TotalPaid(bookings[id].payments) - bookings'[id].refundAmount]_vars

(***************************************************************************)
(* SpecRoundTrip: reservations that start more than three days ahead, paid *)
(* and then cancelled.                                                     *)
(***************************************************************************)
FarDates == {7 * DateStep, 8 * DateStep}

FarHiringRequests ==
  {req \in [bus : {1}, startDate : FarDates, endDate : FarDates,
            estimatedDistance : {0}, numberOfPassengers : {10},
            additionalServices : {<<>>}] : HiringValidation(req)}

FarBookingRequests ==
  [route : Routes, bus : {1}, departureDate : FarDates, returnDate : {NoDate},
   bookingType : {"One-Way"}, passengers : {1}, promoCode : {"", "WELCOME10"}]

NextRoundTrip ==
  \/ \E req \in FarHiringRequests : hirings = <<>> /\ CreateHiring(req)
  \/ \E id \in DOMAIN hirings, amount \in PayAmounts :
       /\ Len(hirings[id].payments) < MaxPayments
       /\ HiringProcessPayment(id, amount)
  \/ \E id \in DOMAIN hirings, actor \in Actors : CancelHiring(id, actor)
  \/ \E req \in FarBookingRequests : bookings = <<>> /\ CreateBooking(req)
  \/ \E id \in DOMAIN bookings :
       \E amount \in BookingPayAmounts \cup {bookings[id].totalFare} :
         /\ Len(bookings[id].payments) < MaxPayments
         /\ BookingProcessPayment(id, amount)
  \/ \E id \in DOMAIN bookings, actor \in Actors : CancelBooking(id, actor)
  \/ Tick

SpecRoundTrip == Init /\ [][NextRoundTrip]_vars

\* The ledger of a reservation paid in full by one payment.
PaidInFullAtOnce(r) == r.totalFare > 0 /\ r.payments = <<Entry(r.totalFare)>>

\* C18: a reservation paid in full by one payment and then cancelled while
\* its policy refunds 100% is left with Completed ledger entries that sum to
\* 0 and with paymentStatus Refunded.
C18_RoundTrip ==
  [][/\ \A id \in DOMAIN hirings :
          (/\ id \in DOMAIN hirings' /\ Cancels(hirings[id], hirings'[id])
           /\ PaidInFullAtOnce(hirings[id])
           /\ HiringRefundPercentage(hirings[id].cancellationPolicy,
                                     hirings[id].startDate - now) = 100)
            => /\ TotalPaid(hirings'[id].payments) = 0
               /\ hirings'[id].paymentStatus = "Refunded"
     /\ \A id \in DOMAIN bookings :
          (/\ id \in DOMAIN bookings' /\ Cancels(bookings[id], bookings'[id])
           /\ PaidInFullAtOnce(bookings[id])
           /\ \A actor \in Actors :
                BookingRefundPercentage(bookings[id].departureDate - now, actor) = 100)
            => /\ TotalPaid(bookings'[id].payments) = 0
               /\ bookings'[id].paymentStatus = "Refunded"]_vars

(***************************************************************************)
(* SpecRefund: the refund percentage as a function of the tier table, the  *)
(* time left until the start and the actor, applied to two times left.     *)
(***************************************************************************)
\* The longest time left that is drawn, in days.
MaxDays == 32

HoursLeft == {d * DateStep : d \in 0 .. (MaxDays * HoursPerDay) \div DateStep}

\* The tier tables: the three policies of a hiring, and the tiers of cancelBooking.
TierTables == {"Standard", "Flexible", "Strict", "Booking"}

\* The lowest threshold of each table, in hours.
LowestThreshold(table) ==
  CASE table = "Strict" -> 7 * HoursPerDay
    [] table = "Booking" -> 24
    [] OTHER -> 1 * HoursPerDay

RefundPercentage(table, hoursToDeparture, actor) ==
  IF table = "Booking"
  THEN BookingRefundPercentage(hoursToDeparture, actor)
  ELSE HiringRefundPercentage(table, hoursToDeparture)

RefundInputs ==
  {req \in [table : TierTables, actor : Actors, t1 : HoursLeft, t2 : HoursLeft] :
     req.t1 >= req.t2}

InitRefund ==
  /\ buses = [b \in BusIds |-> "Active"]
  /\ hirings = <<>>
  /\ bookings = <<>>
  /\ now = 0
  /\ inflight \in {<<Request("refund", req, "drawn")>> : req \in RefundInputs}

\* The percentages a cancellation applies at the two times left.
ApplyRefund(k) ==
  /\ inflight[k].kind = "refund" /\ inflight[k].pc = "drawn"
  /\ LET req == inflight[k].req
     IN inflight' =
          [inflight EXCEPT
             ![k] = Request("refund",
                            [table |-> req.table, actor |-> req.actor,
                             t1 |-> req.t1, t2 |-> req.t2,
                             p1 |-> RefundPercentage(req.table, req.t1, req.actor),
                             p2 |-> RefundPercentage(req.table, req.t2, req.actor)],
                            "applied")]
  /\ UNCHANGED <<buses, hirings, bookings, now>>

NextRefund == \E k \in DOMAIN inflight : ApplyRefund(k)

SpecRefund == InitRefund /\ [][NextRefund]_vars

\* C19: in every tier table the refund percentage lies between 0 and 100%,
\* does not grow as the time left shrinks, and is 0 below the lowest threshold.
C19_RefundMonotone ==
  \A k \in DOMAIN inflight :
    inflight[k].pc = "applied" =>
      LET req == inflight[k].req
      IN /\ req.p1 \in 0 .. 100 /\ req.p2 \in 0 .. 100
         /\ req.p1 >= req.p2
         /\ req.t2 < LowestThreshold(req.table) => req.p2 = 0

\* The refund percentage cancelBooking applies to booking b for an actor: 0
\* unless something was paid, else the percentage of the tiers.
AppliedPercentage(b, actor) ==
  IF b.paymentStatus \in {"Paid", "Partially Paid"}
  THEN BookingRefundPercentage(b.departureDate - now, actor)
  ELSE 0

\* C20: the refund a cancellation applies does not depend on who cancels.
\* Whenever cancelBooking accepts both the administrator and the owner, both
\* are given the same refund percentage and amount; and where it accepts only
\* the administrator (inside the restricted window) the administrator is given
\* the percentage the tiers give the owner for that time.  (A hiring is
\* refunded by Hiring.handleCancellation, which is not told who cancels.)
C20_ActorIndependent ==
  \A id \in DOMAIN bookings :
    LET b == bookings[id]
    IN CancelBookingResponse(id, "admin").code = 200 =>
         /\ AppliedPercentage(b, "admin") = AppliedPercentage(b, "user")
         /\ CancelBookingResponse(id, "user").code = 200 =>
              CancelledBooking(b, "admin").refundAmount
                = CancelledBooking(b, "user").refundAmount

\* C21: inside the restricted window (less than 24 hours before the start of
\* a hiring or the departure of a seat booking) a cancellation by the owner of
\* a reservation that can still be cancelled is refused and leaves the
\* reservation as it was, and the same cancellation by an administrator is
\* accepted and leaves the status Cancelled.
C21_RestrictedWindow ==
  /\ \A id \in DOMAIN hirings :
       (/\ hirings[id].status \notin {"Cancelled", "Completed", "Rejected"}
        /\ hirings[id].startDate - now < HoursPerDay)
         => /\ CancelHiringResponse(id, "user").code = 400
            /\ HiringAfterCancel(id, "user") = hirings[id]
            /\ CancelHiringResponse(id, "admin").code = 200
            /\ HiringAfterCancel(id, "admin").status = "Cancelled"
  /\ \A id \in DOMAIN bookings :
       (/\ bookings[id].status \notin {"Cancelled", "Completed"}
        /\ bookings[id].departureDate - now < 24)
         => /\ CancelBookingResponse(id, "user").code = 400
            /\ BookingAfterCancel(id, "user") = bookings[id]
            /\ CancelBookingResponse(id, "admin").code = 200
            /\ BookingAfterCancel(id, "admin").status = "Cancelled"

\* A paid hiring and a paid seat booking, both inside the restricted window.
C21_Witness ==
  /\ \E id \in DOMAIN hirings :
       /\ hirings[id].status = "Confirmed" /\ hirings[id].payments # <<>>
       /\ hirings[id].startDate - now < HoursPerDay
  /\ \E id \in DOMAIN bookings :
       /\ bookings[id].status = "Confirmed" /\ bookings[id].payments # <<>>
       /\ bookings[id].departureDate - now < 24

(***************************************************************************)
(* SpecScenario: seat bookings for two passengers that depart 50 hours or  *)
(* later from the start of the clock, paid and then cancelled.             *)
(***************************************************************************)
ScenarioHours == 2 * HoursPerDay + 2

ScenarioBookingRequests ==
  [route : Routes, bus : {1},
   departureDate : {ScenarioHours, ScenarioHours + DateStep},
   returnDate : {NoDate}, bookingType : {"One-Way"}, passengers : {2},
   promoCode : {"", "WELCOME10"}]

NextScenario ==
  \/ \E req \in ScenarioBookingRequests : bookings = <<>> /\ CreateBooking(req)
  \/ \E id \in DOMAIN bookings :
       \E amount \in BookingPayAmounts \cup {bookings[id].totalFare} :
         /\ Len(bookings[id].payments) < MaxPayments
         /\ BookingProcessPayment(id, amount)
  \/ \E id \in DOMAIN bookings, actor \in Actors : CancelBooking(id, actor)
  \/ Tick

SpecScenario == Init /\ [][NextScenario]_vars

\* C22: a seat booking that departs in 50 hours and was paid in full with
\* 200.00 is, when its owner cancels it, refunded 100.00 (50%), given the
\* ledger entry -100.00 and left with paymentStatus Partially Refunded.
C22_ScenarioC ==
  \A id \in DOMAIN bookings :
    (/\ bookings[id].departureDate - now = ScenarioHours
     /\ bookings[id].status \in BookingLive
     /\ bookings[id].totalFare = 200 * 100
     /\ PaidInFullAtOnce(bookings[id]))
      => /\ CancelBookingResponse(id, "user").code = 200
         /\ BookingAfterCancel(id, "user").status = "Cancelled"
         /\ BookingAfterCancel(id, "user").refundAmount = 100 * 100
         /\ BookingAfterCancel(id, "user").payments
              = Append(bookings[id].payments, Entry(0 - 100 * 100))
         /\ BookingAfterCancel(id, "user").paymentStatus = "Partially Refunded"

\* C23: every accepted payment is made while the Completed ledger entries
\* sum to less than the reservation's total, so that the sum never exceeds
\* the total by as much as the most recent payment.
C23_PaidWhileBelowTotal ==
  [][/\ \A id \in DOMAIN hirings :
          (id \in DOMAIN hirings' /\ Charged(hirings[id], hirings'[id]))
            => TotalPaid(hirings[id].payments) < hirings[id].totalFare
     /\ \A id \in DOMAIN bookings :
          (id \in DOMAIN bookings' /\ Charged(bookings[id], bookings'[id]))
            => TotalPaid(bookings[id].payments) < bookings[id].totalFare]_vars

(***************************************************************************)
(* SpecHistory: the status changes of one hiring and one seat booking,     *)
(* with the status-history entries the handlers push and the events they   *)
(* emit kept, in order, in `inflight`.                                     *)
(***************************************************************************)
\* How many status-history entries are kept.
MaxHistory == 3

\* The statusHistory entry (and status-update event) of a status change.
StatusEntry(kind, id, oldStatus, newStatus) ==
  Request(kind, [id |-> id, oldStatus |-> oldStatus, newStatus |-> newStatus],
          "recorded")

\* updateHiringStatus with its statusHistory.push and its hiring:status-update event.
RecordedUpdateHiringStatus(id, status) ==
  /\ hirings' = [hirings EXCEPT ![id] = HiringAfterStatus(id, status)]
  /\ inflight' = IF UpdateHiringStatusResponse(id, status).code = 200
                 THEN Append(inflight,
                             StatusEntry("hiringStatus", id, hirings[id].status, status))
                 ELSE inflight
  /\ UNCHANGED <<buses, bookings, now>>

\* updateBookingStatus with its statusHistory.push.
RecordedUpdateBookingStatus(id, status) ==
  /\ bookings' = [bookings EXCEPT ![id] = BookingAfterStatus(id, status)]
  /\ inflight' = IF UpdateBookingStatusResponse(id, status).code = 200
                 THEN Append(inflight,
                             StatusEntry("bookingStatus", id, bookings[id].status, status))
                 ELSE inflight
  /\ UNCHANGED <<buses, hirings, now>>

NextHistory ==
  \/ \E req \in PayHiringRequests : hirings = <<>> /\ CreateHiring(req)
  \/ \E req \in PayBookingRequests : bookings = <<>> /\ CreateBooking(req)
  \/ \E id \in DOMAIN hirings, status \in HiringStatusInputs :
       Len(inflight) < MaxHistory /\ RecordedUpdateHiringStatus(id, status)
  \/ \E id \in DOMAIN bookings, status \in BookingStatusInputs :
       Len(inflight) < MaxHistory /\ RecordedUpdateBookingStatus(id, status)

SpecHistory == Init /\ [][NextHistory]_vars

\* C24: confirming a reservation that is already Confirmed is answered
\* without an error, leaves the status Confirmed, and records no status-history
\* entry and emits no status-changed event.
C24_ConfirmIdempotent ==
  /\ \A id \in DOMAIN hirings :
       hirings[id].status = "Confirmed" =>
         /\ UpdateHiringStatusResponse(id, "Confirmed").code = 200
         /\ HiringAfterStatus(id, "Confirmed").status = "Confirmed"
  /\ \A id \in DOMAIN bookings :
       bookings[id].status = "Confirmed" =>
         /\ UpdateBookingStatusResponse(id, "Confirmed").code = 200
         /\ BookingAfterStatus(id, "Confirmed").status = "Confirmed"
  /\ \A k \in DOMAIN inflight :
       ~(/\ inflight[k].req.oldStatus = "Confirmed"
         /\ inflight[k].req.newStatus = "Confirmed")

\* The fields of a reservation that its total is computed from, or that an
\* update must recompute the total for.
HiringFareFields(h) ==
  <<h.startDate, h.endDate, h.bus, h.estimatedDistance, h.numberOfPassengers,
    h.additionalServices>>
BookingFareFields(b) ==
  <<b.departureDate, b.returnDate, b.bus, b.route, b.passengers>>

\* C25: after every accepted update that changes a field the total depends
\* on (dates, bus, passengers, additional services, route), the stored total
\* is what the fare calculation gives for the reservation's current fields,
\* whoever made the update.
C25_TotalFollowsFields ==
  [][/\ \A id \in DOMAIN hirings :
          (id \in DOMAIN hirings'
           /\ HiringFareFields(hirings'[id]) # HiringFareFields(hirings[id]))
            => hirings'[id].totalFare
                 = HiringFare(hirings'[id].startDate, hirings'[id].endDate,
                              hirings'[id].estimatedDistance,
                              hirings'[id].numberOfPassengers,
                              hirings'[id].additionalServices)
     /\ \A id \in DOMAIN bookings :
          (id \in DOMAIN bookings'
           /\ BookingFareFields(bookings'[id]) # BookingFareFields(bookings[id])
           /\ bookings'[id].route \in Routes)
            => bookings'[id].totalFare
                 = BookingFare(bookings'[id].passengers, bookings'[id].bookingType,
                               bookings'[id].promoCode)]_vars

(***************************************************************************)
(* SpecReprice: one hiring and one seat booking, paid in instalments and   *)
(* updated so that their totals change.                                    *)
(***************************************************************************)
RepriceBookingUpdates ==
  [route : {0}, bus : {0}, departureDate : {MaxDate * DateStep}, returnDate : {NoDate},
   bookingType : {"One-Way"}, passengers : {1, 2},
   status : {Absent}, paymentStatus : {Absent}]

NextReprice ==
  \/ \E req \in PayHiringRequests : hirings = <<>> /\ CreateHiring(req)
  \/ \E id \in DOMAIN hirings, req \in LifeHiringUpdates, actor \in Actors :
       UpdateHiring(id, req, actor)
  \/ \E id \in DOMAIN hirings, amount \in PayAmounts :
       /\ Len(hirings[id].payments) < MaxPayments
       /\ HiringProcessPayment(id, amount)
  \/ \E req \in PayBookingRequests : bookings = <<>> /\ CreateBooking(req)
  \/ \E id \in DOMAIN bookings, req \in RepriceBookingUpdates, actor \in Actors :
       UpdateBooking(id, req, actor)
  \/ \E id \in DOMAIN bookings, amount \in BookingPayAmounts :
       /\ Len(bookings[id].payments) < MaxPayments
       /\ BookingProcessPayment(id, amount)

SpecReprice == Init /\ [][NextReprice]_vars

\* C26: an update that changes the total leaves the ledger as it was and
\* leaves the paymentStatus that the unchanged ledger derives against the new
\* total: Paid when the Completed entries sum to at least the new total,
\* Partially Paid when they sum to more than 0 and less, Unpaid (for a seat
\* booking, Pending) when they sum to 0.
C26_UpdateRederivesStatus ==
  [][/\ \A id \in DOMAIN hirings :
          (id \in DOMAIN hirings' /\ hirings'[id].totalFare # hirings[id].totalFare)
            => /\ hirings'[id].payments = hirings[id].payments
               /\ hirings'[id].paymentStatus
                    \in DerivedPaymentStatus(hirings[id].payments, hirings'[id].totalFare)
     /\ \A id \in DOMAIN bookings :
          (id \in DOMAIN bookings' /\ bookings'[id].totalFare # bookings[id].totalFare)
            => /\ bookings'[id].payments = bookings[id].payments
               /\ bookings'[id].paymentStatus
                    \in DerivedPaymentStatus(bookings[id].payments,
                                             bookings'[id].totalFare)]_vars

(***************************************************************************)
(* SpecWindows: the three availability checks against one stored hiring    *)
(* that is Pending or Confirmed (live for all three), for every pair of an *)
(* existing and a candidate window.                                        *)
(***************************************************************************)
\* The hirings Hiring.checkBusAvailability finds in conflict with hiring
\* document h (self is its _id, 0 for a document that is not stored).
CheckBusAvailabilityHirings(h, self) ==
  {i \in DOMAIN hirings :
     /\ hirings[i].bus = h.bus
     /\ i # self
     /\ \/ (hirings[i].startDate <= h.endDate /\ hirings[i].startDate >= h.startDate)
        \/ (hirings[i].endDate <= h.endDate /\ hirings[i].endDate >= h.startDate)
     /\ hirings[i].status \in {"Confirmed", "Pending", "In Progress"}}

\* The hirings Bus.isAvailable finds in [startDate, endDate] on `bus`.
IsAvailableHirings(bus, startDate, endDate) ==
  {i \in DOMAIN hirings :
     /\ hirings[i].bus = bus
     /\ \/ (hirings[i].startDate <= endDate /\ hirings[i].startDate >= startDate)
        \/ (hirings[i].endDate <= endDate /\ hirings[i].endDate >= startDate)
     /\ hirings[i].status \in {"Confirmed", "Pending"}}

WindowRequests ==
  {req \in [bus : {1}, startDate : Dates, endDate : Dates,
            estimatedDistance : {0}, numberOfPassengers : {10},
            additionalServices : {<<>>}] : req.startDate <= req.endDate}

InitWindows ==
  /\ buses = [b \in BusIds |-> "Active"]
  /\ hirings \in {<<[NewHiring(req) EXCEPT !.status = status]>> :
                    req \in WindowRequests, status \in {"Pending", "Confirmed"}}
  /\ bookings = <<>>
  /\ now = 0
  /\ inflight \in {<<Request("window", req, "drawn")>> : req \in WindowRequests}

\* What each of the three checks reports for the candidate window.
ApplyWindows(k) ==
  /\ inflight[k].kind = "window" /\ inflight[k].pc = "drawn"
  /\ LET req == inflight[k].req
     IN inflight' =
          [inflight EXCEPT
             ![k] = Request("window",
                            [startDate |-> req.startDate, endDate |-> req.endDate,
                             createHiring |->
                               ExistingHirings(req.bus, req.startDate, req.endDate, 0) # {},
                             checkBusAvailability |->
                               CheckBusAvailabilityHirings(NewHiring(req), 0) # {},
                             isAvailable |->
                               IsAvailableHirings(req.bus, req.startDate, req.endDate) # {}],
                            "applied")]
  /\ UNCHANGED <<buses, hirings, bookings, now>>

NextWindows == \E k \in DOMAIN inflight : ApplyWindows(k)

SpecWindows == InitWindows /\ [][NextWindows]_vars

\* C28: createHiring's conflict query, Hiring.checkBusAvailability and
\* Bus.isAvailable each report a conflict between the window of an existing
\* live hiring and a candidate window exactly when the two windows overlap
\* (s1 <= e2 and s2 <= e1), touching and containing windows included.
C28_ConflictIffOverlap ==
  \A k \in DOMAIN inflight :
    (inflight[k].kind = "window" /\ inflight[k].pc = "applied") =>
      \A i \in DOMAIN hirings :
        LET overlap == Overlap(hirings[i].startDate, hirings[i].endDate,
                               inflight[k].req.startDate, inflight[k].req.endDate)
        IN /\ inflight[k].req.createHiring = overlap
           /\ inflight[k].req.checkBusAvailability = overlap
           /\ inflight[k].req.isAvailable = overlap

(***************************************************************************)
(* SpecLedger: one stored hiring, near or far ahead and with any string    *)
(* the schema admits as its cancellationPolicy (a String with default      *)
(* Standard), paid, approved, rejected, cancelled and moved between        *)
(* statuses.                                                               *)
(***************************************************************************)
KnownPolicies == {"Standard", "Flexible", "Strict"}

LedgerHiringRequests ==
  {req \in [bus : {1}, startDate : {3 * DateStep, 8 * DateStep, 16 * DateStep},
            endDate : {4 * DateStep, 9 * DateStep, 17 * DateStep},
            estimatedDistance : {0}, numberOfPassengers : {10},
            additionalServices : {<<>>}] : req.endDate = req.startDate + DateStep}

InitLedger ==
  /\ buses = [b \in BusIds |-> "Active"]
  /\ hirings \in {<<[NewHiring(req) EXCEPT !.cancellationPolicy = policy]>> :
                    req \in LedgerHiringRequests,
                    policy \in KnownPolicies \cup {"Custom"}}
  /\ bookings = <<>>
  /\ now = 0
  /\ inflight = <<>>

NextLedger ==
  \/ \E id \in DOMAIN hirings, amount \in PayAmounts :
       /\ Len(hirings[id].payments) < MaxPayments
       /\ HiringProcessPayment(id, amount)
  \/ \E id \in DOMAIN hirings, actor \in Actors : CancelHiring(id, actor)
  \/ \E id \in DOMAIN hirings, status \in HiringStatusInputs :
       UpdateHiringStatus(id, status)
  \/ \E id \in DOMAIN hirings : ApproveHiring(id)
  \/ \E id \in DOMAIN hirings, hasReason \in BOOLEAN : RejectHiring(id, hasReason)
  \/ Tick

SpecLedger == InitLedger /\ [][NextLedger]_vars

C30_TerminalRefusesPayment ==
  /\ [](/\ \A id \in DOMAIN hirings, amount \in PayAmounts :
            hirings[id].status \in {"Cancelled", "Rejected"} =>
              /\ HiringPaymentResponse(id, amount).code = 400
              /\ HiringAfterPayment(id, amount) = hirings[id]
        /\ \A id \in DOMAIN bookings, amount \in BookingPayAmounts :
            bookings[id].status = "Cancelled" =>
              /\ BookingPaymentResponse(id, amount).code = 400
              /\ BookingAfterPayment(id, amount) = bookings[id])
  /\ [][/\ \A id \in DOMAIN hirings :
            hirings[id].status \in {"Cancelled", "Rejected"} =>
              /\ id \in DOMAIN hirings'
              /\ hirings'[id].payments = hirings[id].payments
              /\ hirings'[id].paymentStatus = hirings[id].paymentStatus
              /\ hirings'[id].status = hirings[id].status
        /\ \A id \in DOMAIN bookings :
            bookings[id].status = "Cancelled" =>
              /\ id \in DOMAIN bookings'
              /\ bookings'[id].payments = bookings[id].payments
              /\ bookings'[id].paymentStatus = bookings[id].paymentStatus
              /\ bookings'[id].status = bookings[id].status]_vars

\* A Rejected hiring and a Cancelled, partly paid seat booking, each
\* refusing a positive payment because of its status.
C30_Witness ==
  /\ \E id \in DOMAIN hirings :
       /\ hirings[id].status = "Rejected"
       /\ hirings[id].payments # <<>>
       /\ HiringPaymentResponse(id, 20000).msg = "Cannot process payment"
  /\ \E id \in DOMAIN bookings :
       /\ bookings[id].status = "Cancelled"
       /\ bookings[id].paymentStatus = "Partially Paid"
       /\ BookingPaymentResponse(id, 4000).msg = "Cannot process payment"

====
